---- MODULE Spec2Model ----
(***************************************************************************)
(* The Dataproc Serverless job executor: an HTTP-triggered function that   *)
(* either submits a batch (POST) or polls one (GET).  Each worker thread   *)
(* of the hosting runtime runs one invocation of main; the invocations     *)
(* share the module-level credentials object, storage client, function     *)
(* name and the wall clock.                                                *)
(*                                                                         *)
(* Python values are tagged records; Python strings are sequences of       *)
(* one-character strings, so that formatting, prefix tests and substring   *)
(* tests are computed and not assumed.                                     *)
(***************************************************************************)
EXTENDS Integers, Sequences, FiniteSets, TLC

\* ------------------------------------------------------------------ bounds
\* Sub-second resolution of the modelled clock (ticks per second).
TicksPerSecond == 4
\* The clock reading at process start, in ticks.
ClockStart == 36
\* How many ticks the clock may advance while the invocations run.
MaxTicks == 6
\* How many times the identity provider rotates the access token.
MaxRotations == 2

\* ------------------------------------------------------- string literals
S_aef == <<"a", "e", "f", "-">>
S_None == <<"N", "o", "n", "e">>
S_Bearer == <<"B", "e", "a", "r", "e", "r", " ">>
S_gs == <<"g", "s", ":", "/", "/">>
S_json == <<".", "j", "s", "o", "n">>
S_slash == <<"/">>
S_projects == <<"p", "r", "o", "j", "e", "c", "t", "s", "/">>
S_regions == <<"/", "r", "e", "g", "i", "o", "n", "s", "/">>
S_clusters == <<"/", "c", "l", "u", "s", "t", "e", "r", "s", "/">>
S_api == <<"h", "t", "t", "p", "s", ":", "/", "/", "d", "a", "t", "a", "p", "r", "o", "c", ".", "g", "o", "o", "g", "l", "e", "a", "p", "i", "s", ".", "c", "o", "m", "/", "v", "1", "/", "p", "r", "o", "j", "e", "c", "t", "s", "/">>
S_locations == <<"/", "l", "o", "c", "a", "t", "i", "o", "n", "s", "/">>
S_batchesNew == <<"/", "b", "a", "t", "c", "h", "e", "s", "?", "b", "a", "t", "c", "h", "I", "d", "=">>
S_batchesGet == <<"/", "b", "a", "t", "c", "h", "e", "s", "/">>
S_createFailed == <<"D", "a", "t", "a", "p", "r", "o", "c", " ", "A", "P", "I", " ", "C", "R", "E", "A", "T", "E", " ", "r", "e", "q", "u", "e", "s", "t", " ", "f", "a", "i", "l", "e", "d", ".", " ", "S", "t", "a", "t", "u", "s", " ", "c", "o", "d", "e", ":">>
S_getFailed == <<"D", "a", "t", "a", "p", "r", "o", "c", " ", "A", "P", "I", " ", "G", "E", "T", " ", "r", "e", "q", "u", "e", "s", "t", " ", "f", "a", "i", "l", "e", "d", ".", " ", "S", "t", "a", "t", "u", "s", " ", "c", "o", "d", "e", ":">>
S_noAttr1 == <<"'">>
S_noAttr2 == <<"'", " ", "o", "b", "j", "e", "c", "t", " ", "h", "a", "s", " ", "n", "o", " ", "a", "t", "t", "r", "i", "b", "u", "t", "e", " ", "'">>
S_expecting == <<"E", "x", "p", "e", "c", "t", "i", "n", "g", " ", "v", "a", "l", "u", "e", ":", " ", "l", "i", "n", "e", " ", "1", " ", "c", "o", "l", "u", "m", "n", " ", "1", " ", "(", "c", "h", "a", "r", " ", "0", ")">>
S_Exception == <<"E", "x", "c", "e", "p", "t", "i", "o", "n">>
S_AttributeError == <<"A", "t", "t", "r", "i", "b", "u", "t", "e", "E", "r", "r", "o", "r">>
S_JSONDecodeError == <<"J", "S", "O", "N", "D", "e", "c", "o", "d", "e", "E", "r", "r", "o", "r">>
S_Forbidden == <<"F", "o", "r", "b", "i", "d", "d", "e", "n">>
S_RefreshError == <<"R", "e", "f", "r", "e", "s", "h", "E", "r", "r", "o", "r">>
S_ConnectionError == <<"C", "o", "n", "n", "e", "c", "t", "i", "o", "n", "E", "r", "r", "o", "r">>
S_NoneType == <<"N", "o", "n", "e", "T", "y", "p", "e">>
S_list == <<"l", "i", "s", "t">>
S_get == <<"g", "e", "t">>
S_startswith == <<"s", "t", "a", "r", "t", "s", "w", "i", "t", "h">>
S_RUNNING == <<"R", "U", "N", "N", "I", "N", "G">>

S_stateRunning == <<"{", "\"", "s", "t", "a", "t", "e", "\"", ":", "\"", "R", "U", "N", "N", "I", "N", "G", "\"", "}">>
S_emptyObject == <<"{", "}">>
S_propsObject == <<"{", "\"", "k", "\"", ":", "\"", "v", "\"", "}">>
S_notJson == <<"n", "o", "t", " ", "f", "o", "u", "n", "d">>
S_accessDenied == <<"a", "c", "c", "e", "s", "s", " ", "d", "e", "n", "i", "e", "d">>
S_refreshFailed == <<"t", "o", "k", "e", "n", " ", "r", "e", "f", "r", "e", "s", "h", " ", "f", "a", "i", "l", "e", "d">>
S_connFailed == <<"c", "o", "n", "n", "e", "c", "t", "i", "o", "n", " ", "f", "a", "i", "l", "e", "d">>
S_tokenPrefix == <<"y", "a", ".">>

\* ------------------------------------------------------------ Python values
PyNone == [t |-> "NoneType"]
PyStr(s) == [t |-> "str", s |-> s]
PyDict(d) == [t |-> "dict", d |-> d]
PyList(l) == [t |-> "list", l |-> l]
EmptyMap == [k \in {} |-> PyNone]
EmptyDict == PyDict(EmptyMap)

IsStr(v) == v.t = "str"
IsDict(v) == v.t = "dict"

\* type(v).__name__ as text
TypeName(v) ==
    CASE v.t = "NoneType" -> S_NoneType
      [] v.t = "list" -> S_list
      [] v.t = "dict" -> <<"d", "i", "c", "t">>
      [] OTHER -> <<"s", "t", "r">>

\* d.get(k) on a dict: None when the key is missing
Get(v, k) == IF k \in DOMAIN v.d THEN v.d[k] ELSE PyNone

\* bool(v)
Truthy(v) ==
    CASE v.t = "NoneType" -> FALSE
      [] v.t = "str" -> Len(v.s) > 0
      [] v.t = "dict" -> DOMAIN v.d # {}
      [] v.t = "list" -> Len(v.l) > 0

\* str(v) as an f-string placeholder renders it
Fmt(v) ==
    CASE v.t = "NoneType" -> S_None
      [] v.t = "str" -> v.s
      [] v.t = "list" -> <<"[", "]">>
      [] v.t = "dict" -> <<"{", "}">>

Digit(d) == <<"0", "1", "2", "3", "4", "5", "6", "7", "8", "9">>[d + 1]

RECURSIVE IntToStr(_)
\* str(n) for an int n >= 0
IntToStr(n) == IF n < 10 THEN <<Digit(n)>> ELSE IntToStr(n \div 10) \o <<Digit(n % 10)>>

\* s.startswith(p)
StartsWith(s, p) == Len(s) >= Len(p) /\ SubSeq(s, 1, Len(p)) = p
EndsWith(s, p) == Len(s) >= Len(p) /\ SubSeq(s, Len(s) - Len(p) + 1, Len(s)) = p
\* sub in s
Contains(s, sub) == \E k \in 0..(Len(s) - Len(sub)) : SubSeq(s, k + 1, k + Len(sub)) = sub

\* repr of a str: single quotes unless the text holds a single quote and no
\* double quote
ReprStr(s) ==
    IF (\E k \in 1..Len(s) : s[k] = "'") /\ ~(\E k \in 1..Len(s) : s[k] = "\"")
    THEN <<"\"">> \o s \o <<"\"">>
    ELSE <<"'">> \o s \o <<"'">>

\* ------------------------------------------------------------- exceptions
Exc(cls, msg) == [cls |-> cls, msg |-> msg]
\* repr(error): ClassName('message')
Repr(e) == e.cls \o <<"(">> \o ReprStr(e.msg) \o <<")">>
\* v.attr where type(v) has no such attribute
NoAttribute(v, attr) == Exc(S_AttributeError, S_noAttr1 \o TypeName(v) \o S_noAttr2 \o attr \o S_noAttr1)

\* json.loads(text): the texts the model feeds it, parsed; anything else is
\* not JSON
JsonValid(s) == s \in {S_emptyObject, S_propsObject, S_stateRunning}
JsonLoads(s) ==
    CASE s = S_emptyObject -> EmptyDict
      [] s = S_propsObject -> PyDict([k |-> PyStr(<<"v">>)])
      [] s = S_stateRunning -> PyDict([state |-> PyStr(S_RUNNING)])

\* int(t): the reading cut down to its whole second
TimestampTruncated(t) == t \div TicksPerSecond

\* int(round(t)) of a reading of t ticks: Python 3 rounds to the nearest
\* integer, a tie to the even one
Timestamp(t) ==
    LET q == t \div TicksPerSecond
        r == t % TicksPerSecond
    IN  IF 2 * r < TicksPerSecond THEN q
        ELSE IF 2 * r > TicksPerSecond THEN q + 1
        ELSE IF q % 2 = 0 THEN q ELSE q + 1

\* f"aef-{timestamp}"
BatchId(timestamp) == S_aef \o IntToStr(timestamp)

\* the access token the identity provider currently hands out
Token(k) == S_tokenPrefix \o IntToStr(k)

\* ------------------------------------------------------------------ inputs
Threads == {"t1", "t2"}
HTTP_OK == 200
StatusCodes == {HTTP_OK, 404, 500}

JobIds == {PyStr(<<>>), PyStr(S_aef \o <<"7">>)}
WorkflowProperties ==
    {PyNone, EmptyDict, PyDict([jobs_definitions_bucket |-> PyStr(<<>>)]),
     PyDict([jobs_definitions_bucket |-> PyStr(<<"b">>)])}
RequestDicts ==
    LET base == [workflow_name |-> PyStr(<<"w">>), job_name |-> PyStr(<<"j">>)]
        withId == {base} \cup {base @@ [job_id |-> j] : j \in JobIds}
    IN  withId \cup {d @@ [workflow_properties |-> wp] : d \in withId, wp \in WorkflowProperties}
\* what request.get_json(silent=True) yields: None for a missing or non-JSON
\* body, otherwise the decoded JSON value
Requests == {PyNone, PyList(<<>>)} \cup {PyDict(d) : d \in RequestDicts}

CompleteParams ==
    [dataproc_serverless_project_id |-> PyStr(<<"p">>),
     dataproc_serverless_region |-> PyStr(<<"r">>),
     jar_file_location |-> PyStr(<<"j", "a", "r">>),
     spark_history_server_cluster |-> PyStr(<<"h", "s">>),
     spark_app_main_class |-> PyStr(<<"M">>),
     spark_args |-> PyList(<<PyStr(<<"a">>)>>),
     dataproc_serverless_runtime_version |-> PyStr(<<"2">>),
     dataproc_service_account |-> PyStr(<<"s", "a">>),
     spark_app_properties |-> PyDict([k |-> PyStr(<<"v">>)]),
     subnetwork |-> PyStr(<<"n">>)]
Without(d, k) == [x \in DOMAIN d \ {k} |-> d[x]]
ParamDicts ==
    {CompleteParams, EmptyMap,
     Without(CompleteParams, "spark_history_server_cluster"),
     [CompleteParams EXCEPT !.spark_history_server_cluster = PyNone],
     [CompleteParams EXCEPT !.spark_history_server_cluster = PyStr(<<>>)],
     [CompleteParams EXCEPT !.spark_app_properties = PyStr(S_propsObject)],
     [CompleteParams EXCEPT !.spark_app_properties = PyStr(S_notJson)],
     Without(CompleteParams, "dataproc_serverless_project_id")}
\* what blob.download_as_bytes() and the decoding do
Blobs ==
    {[kind |-> "ok", content |-> PyDict(d)] : d \in ParamDicts}
    \cup {[kind |-> "ok", content |-> PyList(<<>>)]}
    \cup {[kind |-> k] : k \in {"NotFound", "JSONDecodeError", "UnicodeDecodeError", "Forbidden"}}
LoadFailures == {"NotFound", "JSONDecodeError", "UnicodeDecodeError"}

\* what the remote API answers, or the transport failing
Replies ==
    {[kind |-> "response", status_code |-> c, text |-> b] :
        c \in StatusCodes, b \in {S_stateRunning, S_emptyObject, S_notJson}}
    \cup {[kind |-> "ConnectionError"]}

\* the narrower inputs of the concurrent specification
ConcRequests == {PyDict([job_name |-> PyStr(<<"j">>)]),
                 PyDict([job_name |-> PyStr(<<"j">>), job_id |-> PyStr(S_aef \o <<"7">>)])}
ConcReplies ==
    {[kind |-> "response", status_code |-> c, text |-> S_stateRunning] : c \in {HTTP_OK, 404}}

\* ------------------------------------------------------------------- state
VARIABLES
    workers,            \* the threads the hosting runtime serves requests on
    credentials,        \* module level: google.auth.default()'s credentials
    function_name,      \* module level: os.environ.get('K_SERVICE')
    storage_client,     \* module level: storage.Client()
    clock,              \* the wall clock, in ticks
    provider,           \* the number of the token the identity provider hands out
    pc,                 \* each invocation's position
    request_json,       \* main's local
    extracted_params,   \* main's local
    blob,               \* how the invocation's blob read ended
    reads,              \* the blob reads the invocation issued
    calls,              \* the REST calls the invocation issued
    replies,            \* the answers it got
    curr_dt,            \* create_batch_job's local: the clock reading
    refreshed,          \* the token the invocation's own refresh obtained
    raised,             \* the exceptions main's handler caught
    response            \* what main returned

globals == <<workers, credentials, function_name, storage_client>>
env == <<clock, provider>>
locals == <<request_json, extracted_params, blob, reads, calls, replies, curr_dt, refreshed>>
vars == <<globals, env, locals, pc, raised, response>>

InitCredentials == [token |-> PyNone]
InitFunctionName == PyStr(<<"f", "n">>)
InitStorageClient == [project |-> PyStr(<<"p">>)]

InitWith(w) ==
    /\ workers = w
    /\ credentials = InitCredentials
    /\ function_name = InitFunctionName
    /\ storage_client = InitStorageClient
    /\ clock = ClockStart
    /\ provider = 1
    /\ pc = [i \in Threads |-> "idle"]
    /\ request_json = [i \in Threads |-> PyNone]
    /\ extracted_params = [i \in Threads |-> PyNone]
    /\ blob = [i \in Threads |-> "unread"]
    /\ reads = [i \in Threads |-> <<>>]
    /\ calls = [i \in Threads |-> <<>>]
    /\ replies = [i \in Threads |-> <<>>]
    /\ curr_dt = [i \in Threads |-> 0]
    /\ refreshed = [i \in Threads |-> PyNone]
    /\ raised = [i \in Threads |-> <<>>]
    /\ response = [i \in Threads |-> PyNone]

Init == InitWith({"t1"})
InitConc == InitWith(Threads)

\* ------------------------------------------------------------ main's ends
Goto(i, l) ==
    /\ pc' = [pc EXCEPT ![i] = l]
    /\ UNCHANGED <<raised, response>>

\* return status_or_job_id
Return(i, v) ==
    /\ pc' = [pc EXCEPT ![i] = "done"]
    /\ response' = [response EXCEPT ![i] = v]
    /\ UNCHANGED raised

\* the message taken with str(error) in place of repr(error)
ErrorObjectStr(e) == PyDict([error |-> PyStr(e.cls), message |-> PyStr(e.msg)])

\* the response built from a caught exception
ErrorObject(e) == PyDict([error |-> PyStr(e.cls), message |-> PyStr(Repr(e))])

\* a handler that sends the POST again when it failed
MainExceptRetry(i, e) ==
    IF pc[i] = "wait_create" /\ e.cls = S_Exception
    THEN /\ pc' = [pc EXCEPT ![i] = "send_create"]
         /\ UNCHANGED <<raised, response>>
    ELSE /\ pc' = [pc EXCEPT ![i] = "done"]
         /\ raised' = [raised EXCEPT ![i] = Append(@, e)]
         /\ response' = [response EXCEPT ![i] = PyDict([error |-> PyStr(e.cls), message |-> PyStr(Repr(e))])]

\* a handler that catches only the errors the REST calls raise deliberately
MainExceptNarrow(i, e) ==
    IF e.cls = S_Exception
    THEN /\ pc' = [pc EXCEPT ![i] = "done"]
         /\ raised' = [raised EXCEPT ![i] = Append(@, e)]
         /\ response' = [response EXCEPT ![i] = ErrorObject(e)]
    ELSE /\ pc' = [pc EXCEPT ![i] = "escaped"]
         /\ UNCHANGED <<raised, response>>

\* except Exception as error: ... return response
MainExcept(i, e) ==
    /\ pc' = [pc EXCEPT ![i] = "done"]
    /\ raised' = [raised EXCEPT ![i] = Append(@, e)]
    /\ response' = [response EXCEPT ![i] = ErrorObject(e)]

\* the tail of main once execute_job_or_get_status returned v
MainTail(i, v) ==
    IF IsStr(v) THEN Return(i, v) ELSE MainExcept(i, NoAttribute(v, S_startswith))

\* --------------------------------------------------------------- operations
\* main, up to the parameter load: the request's fields are read and the
\* bucket decides whether extract_params runs
Main(i, Rs) ==
    /\ i \in workers
    /\ pc[i] = "idle"
    /\ \E req \in Rs :
        /\ request_json' = [request_json EXCEPT ![i] = req]
        /\ IF ~IsDict(req)
           THEN MainExcept(i, NoAttribute(req, S_get)) /\ UNCHANGED extracted_params
           ELSE LET wp == IF "workflow_properties" \in DOMAIN req.d
                          THEN req.d["workflow_properties"] ELSE EmptyDict
                IN  IF ~IsDict(wp)
                    THEN MainExcept(i, NoAttribute(wp, S_get)) /\ UNCHANGED extracted_params
                    ELSE IF Truthy(Get(wp, "jobs_definitions_bucket"))
                         THEN Goto(i, "extract") /\ UNCHANGED extracted_params
                         ELSE /\ Goto(i, "dispatch")
                              /\ extracted_params' = [extracted_params EXCEPT ![i] = EmptyDict]
    /\ UNCHANGED <<globals, env, blob, reads, calls, replies, curr_dt, refreshed>>

\* the object extract_params reads: gs://<bucket>/<function_name>/<job_name>.json
\* split back into bucket and object name
ObjectRead(bucket_name, job_name) ==
    [bucket |-> Fmt(bucket_name),
     object |-> Fmt(function_name) \o S_slash \o Fmt(job_name) \o S_json]

\* what extract_params returns for a blob outcome it does not let escape
ExtractResult(o) == IF o.kind = "ok" THEN o.content ELSE PyNone

\* extract_params: one blob read; not-found, bad JSON and bad text are
\* swallowed, anything else propagates to main's handler
ExtractParams(i, Bs) ==
    /\ i \in workers
    /\ pc[i] = "extract"
    /\ LET req == request_json[i]
           bucket == Get(req.d["workflow_properties"], "jobs_definitions_bucket")
       IN  reads' = [reads EXCEPT ![i] = Append(@, ObjectRead(bucket, Get(req, "job_name")))]
    /\ \E o \in Bs :
        /\ blob' = [blob EXCEPT ![i] = o.kind]
        /\ IF o.kind \in {"ok"} \cup LoadFailures
           THEN /\ extracted_params' = [extracted_params EXCEPT ![i] = ExtractResult(o)]
                /\ Goto(i, "dispatch")
           ELSE /\ MainExcept(i, Exc(S_Forbidden, S_accessDenied))
                /\ UNCHANGED extracted_params
    /\ UNCHANGED <<globals, env, request_json, calls, replies, curr_dt, refreshed>>

\* create_batch_job's spark_app_properties after the isinstance(..., str) step
SparkAppProperties(params) ==
    LET v == Get(params, "spark_app_properties")
    IN  IF IsStr(v) THEN JsonLoads(v.s) ELSE v

\* the two branches the wrong way round
BranchSwapped(job_id) == IF Truthy(job_id) THEN "create" ELSE "get"

\* execute_job_or_get_status: which function runs
Branch(job_id) == IF Truthy(job_id) THEN "get" ELSE "create"

\* execute_job_or_get_status and the callee up to its token refresh: the
\* parameters are read off extracted_params
ExecuteJobOrGetStatus(i) ==
    /\ i \in workers
    /\ pc[i] = "dispatch"
    /\ LET params == extracted_params[i]
           props == Get(params, "spark_app_properties")
       IN  IF ~IsDict(params)
           THEN MainExcept(i, NoAttribute(params, S_get))
           ELSE IF Branch(Get(request_json[i], "job_id")) = "get"
                THEN Goto(i, "refresh_get")
                ELSE IF IsStr(props) /\ ~JsonValid(props.s)
                     THEN MainExcept(i, Exc(S_JSONDecodeError, S_expecting))
                     ELSE Goto(i, "refresh_create")
    /\ UNCHANGED <<globals, env, locals>>

\* a refresh whose token never reaches the shared credentials object
CredentialsRefreshUnstored(i, next) ==
    \E ok \in BOOLEAN :
        IF ok
        THEN /\ refreshed' = [refreshed EXCEPT ![i] = PyStr(Token(provider))]
             /\ pc' = [pc EXCEPT ![i] = next]
             /\ UNCHANGED <<credentials, raised, response>>
        ELSE /\ pc' = [pc EXCEPT ![i] = "done"]
             /\ raised' = [raised EXCEPT ![i] = Append(@, Exc(S_RefreshError, S_refreshFailed))]
             /\ response' = [response EXCEPT ![i] =
                    PyDict([error |-> PyStr(S_RefreshError),
                            message |-> PyStr(Repr(Exc(S_RefreshError, S_refreshFailed)))])]
             /\ UNCHANGED <<credentials, refreshed>>

\* credentials.refresh(Request()): the shared credentials object takes the
\* provider's current token, or the refresh fails
CredentialsRefresh(i, next) ==
    \E ok \in BOOLEAN :
        IF ok
        THEN /\ credentials' = [credentials EXCEPT !.token = PyStr(Token(provider))]
             /\ refreshed' = [refreshed EXCEPT ![i] = PyStr(Token(provider))]
             /\ Goto(i, next)
        ELSE /\ MainExcept(i, Exc(S_RefreshError, S_refreshFailed))
             /\ UNCHANGED <<credentials, refreshed>>

RefreshCreate(i) ==
    /\ i \in workers
    /\ pc[i] = "refresh_create"
    /\ CredentialsRefresh(i, "send_create")
    /\ UNCHANGED <<workers, function_name, storage_client, env>>
    /\ UNCHANGED <<request_json, extracted_params, blob, reads, calls, replies, curr_dt>>

RefreshGet(i) ==
    /\ i \in workers
    /\ pc[i] = "refresh_get"
    /\ CredentialsRefresh(i, "send_get")
    /\ UNCHANGED <<workers, function_name, storage_client, env>>
    /\ UNCHANGED <<request_json, extracted_params, blob, reads, calls, replies, curr_dt>>

\* {"Authorization": f"Bearer {credentials.token}"}
Headers == [Authorization |-> S_Bearer \o Fmt(credentials.token)]

\* peripherals_config added under `is not None` in place of truthiness
EnvironmentConfigNotNone(params) ==
    LET project_id == Get(params, "dataproc_serverless_project_id")
        cluster == Get(params, "spark_history_server_cluster")
        execution ==
            [service_account |-> Get(params, "dataproc_service_account"),
             subnetwork_uri |->
                 PyStr(S_projects \o Fmt(project_id) \o S_slash \o Fmt(Get(params, "subnetwork")))]
        path == S_projects \o Fmt(project_id) \o S_regions
                    \o Fmt(Get(params, "dataproc_serverless_region"))
                    \o S_clusters \o Fmt(cluster)
    IN  IF cluster # PyNone
        THEN [execution_config |-> execution,
              peripherals_config |->
                  [spark_history_server_config |-> [dataproc_cluster |-> PyStr(path)]]]
        ELSE [execution_config |-> execution]

\* the environment_config of the request body; peripherals_config is added
\* under `if spark_history_server_cluster:`
EnvironmentConfig(params) ==
    LET project_id == Get(params, "dataproc_serverless_project_id")
        region == Get(params, "dataproc_serverless_region")
        cluster == Get(params, "spark_history_server_cluster")
        execution ==
            [service_account |-> Get(params, "dataproc_service_account"),
             subnetwork_uri |->
                 PyStr(S_projects \o Fmt(project_id) \o S_slash \o Fmt(Get(params, "subnetwork")))]
        path == S_projects \o Fmt(project_id) \o S_regions \o Fmt(region)
                    \o S_clusters \o Fmt(cluster)
    IN  IF Truthy(cluster)
        THEN [execution_config |-> execution,
              peripherals_config |->
                  [spark_history_server_config |-> [dataproc_cluster |-> PyStr(path)]]]
        ELSE [execution_config |-> execution]

\* the request body create_batch_job posts
Payload(params) ==
    [spark_batch |->
         [jar_file_uris |-> PyList(<<Get(params, "jar_file_location")>>),
          main_class |-> Get(params, "spark_app_main_class"),
          args |-> Get(params, "spark_args")],
     runtime_config |->
         [version |-> Get(params, "dataproc_serverless_runtime_version"),
          properties |-> SparkAppProperties(params)],
     environment_config |-> EnvironmentConfig(params)]

\* the URL without the batchId value
CreateUrlNoBatchId(params, batch_id) ==
    S_api \o Fmt(Get(params, "dataproc_serverless_project_id"))
        \o S_locations \o Fmt(Get(params, "dataproc_serverless_region"))
        \o S_batchesNew

CreateUrl(params, batch_id) ==
    S_api \o Fmt(Get(params, "dataproc_serverless_project_id"))
        \o S_locations \o Fmt(Get(params, "dataproc_serverless_region"))
        \o S_batchesNew \o batch_id

GetUrl(params, job_id) ==
    S_api \o Fmt(Get(params, "dataproc_serverless_project_id"))
        \o S_locations \o Fmt(Get(params, "dataproc_serverless_region"))
        \o S_batchesGet \o Fmt(job_id)

\* create_batch_job from the token read to requests.post: the clock is read,
\* the body and the URL are built and the POST is sent
SendCreate(i) ==
    /\ i \in workers
    /\ pc[i] = "send_create"
    /\ curr_dt' = [curr_dt EXCEPT ![i] = clock]
    /\ calls' = [calls EXCEPT ![i] =
           Append(@, [method |-> "POST",
                      url |-> CreateUrl(extracted_params[i], BatchId(Timestamp(clock))),
                      headers |-> Headers,
                      json |-> Payload(extracted_params[i])])]
    /\ Goto(i, "wait_create")
    /\ UNCHANGED <<globals, env, request_json, extracted_params, blob, reads, replies, refreshed>>

\* f"Dataproc API CREATE request failed. Status code:{response.status_code}"
CreateErrorMessage(status_code) == S_createFailed \o IntToStr(status_code)

\* create_batch_job once the POST is answered, and main's tail
RecvCreate(i, Rp) ==
    /\ i \in workers
    /\ pc[i] = "wait_create"
    /\ \E r \in Rp :
        /\ replies' = [replies EXCEPT ![i] = Append(@, r)]
        /\ IF r.kind = "ConnectionError"
           THEN MainExcept(i, Exc(S_ConnectionError, S_connFailed))
           ELSE IF r.status_code = HTTP_OK
                THEN MainTail(i, PyStr(BatchId(Timestamp(curr_dt[i]))))
                ELSE MainExcept(i, Exc(S_Exception, CreateErrorMessage(r.status_code)))
    /\ UNCHANGED <<globals, env, request_json, extracted_params, blob, reads, calls, curr_dt, refreshed>>

\* get_job_status from the token read to requests.get
SendGet(i) ==
    /\ i \in workers
    /\ pc[i] = "send_get"
    /\ calls' = [calls EXCEPT ![i] =
           Append(@, [method |-> "GET",
                      url |-> GetUrl(extracted_params[i], Get(request_json[i], "job_id")),
                      headers |-> Headers])]
    /\ Goto(i, "wait_get")
    /\ UNCHANGED <<globals, env, request_json, extracted_params, blob, reads, replies, curr_dt, refreshed>>

\* the message without the status code
GetErrorMessageNoCode(status_code) == S_getFailed

\* f"Dataproc API GET request failed. Status code:{response.status_code}"
GetErrorMessage(status_code) == S_getFailed \o IntToStr(status_code)

\* get_job_status once the GET is answered, and main's tail
RecvGet(i, Rp) ==
    /\ i \in workers
    /\ pc[i] = "wait_get"
    /\ \E r \in Rp :
        /\ replies' = [replies EXCEPT ![i] = Append(@, r)]
        /\ IF r.kind = "ConnectionError"
           THEN MainExcept(i, Exc(S_ConnectionError, S_connFailed))
           ELSE IF r.status_code = HTTP_OK
                THEN IF JsonValid(r.text)
                     THEN MainTail(i, Get(JsonLoads(r.text), "state"))
                     ELSE MainExcept(i, Exc(S_JSONDecodeError, S_expecting))
                ELSE MainExcept(i, Exc(S_Exception, GetErrorMessage(r.status_code)))
    /\ UNCHANGED <<globals, env, request_json, extracted_params, blob, reads, calls, curr_dt, refreshed>>

\* ------------------------------------------------------------- environment
\* the wall clock advances
Tick ==
    /\ clock < ClockStart + MaxTicks
    /\ clock' = clock + 1
    /\ UNCHANGED <<globals, provider, locals, pc, raised, response>>

\* the identity provider starts handing out a new token
Rotate ==
    /\ provider < 1 + MaxRotations
    /\ provider' = provider + 1
    /\ UNCHANGED <<globals, clock, locals, pc, raised, response>>

\* ----------------------------------------------------------- specifications
\* one invocation, every input
Next ==
    \/ \E i \in Threads : Main(i, Requests)
    \/ \E i \in Threads : ExtractParams(i, Blobs)
    \/ \E i \in Threads : ExecuteJobOrGetStatus(i)
    \/ \E i \in Threads : RefreshCreate(i)
    \/ \E i \in Threads : SendCreate(i)
    \/ \E i \in Threads : RecvCreate(i, Replies)
    \/ \E i \in Threads : RefreshGet(i)
    \/ \E i \in Threads : SendGet(i)
    \/ \E i \in Threads : RecvGet(i, Replies)
    \/ Tick
    \/ Rotate

Spec == Init /\ [][Next]_vars

\* two invocations on two threads of one process
NextConc ==
    \/ \E i \in Threads : Main(i, ConcRequests)
    \/ \E i \in Threads : ExecuteJobOrGetStatus(i)
    \/ \E i \in Threads : RefreshCreate(i)
    \/ \E i \in Threads : SendCreate(i)
    \/ \E i \in Threads : RecvCreate(i, ConcReplies)
    \/ \E i \in Threads : RefreshGet(i)
    \/ \E i \in Threads : SendGet(i)
    \/ \E i \in Threads : RecvGet(i, ConcReplies)
    \/ Tick
    \/ Rotate

SpecConc == InitConc /\ [][NextConc]_vars

\* ------------------------------------------------------------------ claims
Done(i) == pc[i] = "done"
JobIdOf(i) == IF IsDict(request_json[i]) THEN Get(request_json[i], "job_id") ELSE PyNone
\* the invocation got an HTTP answer (not a transport failure)
Answered(i) == Len(replies[i]) > 0 /\ replies[i][1].kind = "response"
IsErrorObject(v) ==
    IsDict(v) /\ DOMAIN v.d = {"error", "message"} /\ IsStr(v.d["error"]) /\ IsStr(v.d["message"])
\* what one invocation can do next
ThreadNext(i) ==
    \/ Main(i, Requests) \/ ExtractParams(i, Blobs) \/ ExecuteJobOrGetStatus(i)
    \/ RefreshCreate(i) \/ SendCreate(i) \/ RecvCreate(i, Replies)
    \/ RefreshGet(i) \/ SendGet(i) \/ RecvGet(i, Replies)

\* C1: no exception escapes main; an invocation that has not returned can
\* always take its next step, and one that has returned gave either a string
\* (nothing was raised) or an object with exactly the fields error (the class
\* name of the exception caught) and message (a string).
C1_StringOrErrorObject ==
    \A i \in workers :
        /\ pc[i] # "escaped"
        /\ ~Done(i) => ENABLED ThreadNext(i)
        /\ Done(i) =>
            IF raised[i] = <<>>
            THEN IsStr(response[i])
            ELSE /\ Len(raised[i]) = 1
                 /\ IsErrorObject(response[i])
                 /\ response[i].d["error"].s = raised[i][1].cls
\* a request with a null workflow_properties ended in an AttributeError object
C1_Witness ==
    \E i \in workers :
        /\ Done(i)
        /\ IsDict(request_json[i])
        /\ Get(request_json[i], "workflow_properties") = PyNone
        /\ "workflow_properties" \in DOMAIN request_json[i].d
        /\ IsErrorObject(response[i])
        /\ response[i].d["error"].s = S_AttributeError

\* the state value of the answer's JSON body
StateOf(r) == Get(JsonLoads(r.text), "state")

\* C2 as stated: every request containing job_id performs exactly one GET on
\* .../batches/{job_id} and no POST, an HTTP 200 answer makes main return the
\* state value of the body, and a request without job_id goes to creation.
C2_Original ==
    \A i \in workers :
        (Done(i) /\ IsDict(request_json[i])) =>
            IF "job_id" \in DOMAIN request_json[i].d
            THEN /\ Len(calls[i]) = 1
                 /\ calls[i][1].method = "GET"
                 /\ EndsWith(calls[i][1].url, S_batchesGet \o Fmt(JobIdOf(i)))
                 /\ (Answered(i) /\ replies[i][1].status_code = HTTP_OK /\ JsonValid(replies[i][1].text))
                        => response[i] = StateOf(replies[i][1])
            ELSE \A k \in 1..Len(calls[i]) : calls[i][k].method = "POST"
\* C2, amended: a request whose job_id is non-empty never issues a POST, any
\* REST call it issues is a GET on .../batches/{job_id}, and an HTTP 200
\* answer whose body holds a string state makes main return that state; every
\* other request never issues a GET.
C2_StatusLookup ==
    \A i \in workers :
        IF Truthy(JobIdOf(i))
        THEN /\ \A k \in 1..Len(calls[i]) :
                    /\ calls[i][k].method = "GET"
                    /\ EndsWith(calls[i][k].url, S_batchesGet \o JobIdOf(i).s)
             /\ (/\ Done(i)
                 /\ Answered(i)
                 /\ replies[i][1].status_code = HTTP_OK
                 /\ JsonValid(replies[i][1].text)
                 /\ IsStr(StateOf(replies[i][1])))
                    => response[i] = StateOf(replies[i][1])
        ELSE \A k \in 1..Len(calls[i]) : calls[i][k].method = "POST"
\* a status request answered 200 {"state":"RUNNING"} returned RUNNING
C2_Witness ==
    \E i \in workers :
        /\ Done(i)
        /\ Truthy(JobIdOf(i))
        /\ Len(calls[i]) = 1
        /\ calls[i][1].method = "GET"
        /\ Answered(i)
        /\ replies[i][1].status_code = HTTP_OK
        /\ response[i] = PyStr(S_RUNNING)

\* C3 as stated: when a bucket is given and the parameter load fails with
\* not-found, bad JSON or bad text, a creation request does not end in an
\* error object because of it: its POST is still issued, unless the token
\* refresh failed first.
C3_LoadFailureSwallowed ==
    \A i \in workers :
        (Done(i) /\ blob[i] \in LoadFailures /\ ~Truthy(JobIdOf(i))) =>
            \/ /\ Len(calls[i]) = 1
               /\ calls[i][1].method = "POST"
            \/ /\ Len(raised[i]) = 1
               /\ raised[i][1].cls = S_RefreshError

\* the error kinds the specification names
S_JobSubmissionError == <<"J", "o", "b", "S", "u", "b", "m", "i", "s", "s", "i", "o", "n", "E", "r", "r", "o", "r">>
S_JobStatusError == <<"J", "o", "b", "S", "t", "a", "t", "u", "s", "E", "r", "r", "o", "r">>
\* C4 as stated: a non-200 answer ends in an error object whose error is
\* JobSubmissionError (POST) or JobStatusError (GET) and whose message holds
\* the status code and the body text.
C4_Original ==
    \A i \in workers :
        (Done(i) /\ Answered(i) /\ replies[i][1].status_code # HTTP_OK) =>
            /\ IsErrorObject(response[i])
            /\ response[i].d["error"].s =
                   (IF calls[i][1].method = "POST" THEN S_JobSubmissionError ELSE S_JobStatusError)
            /\ Contains(response[i].d["message"].s, IntToStr(replies[i][1].status_code))
            /\ Contains(response[i].d["message"].s, replies[i][1].text)
\* C4, amended: a non-200 answer ends in an error object whose error is
\* Exception and whose message is the repr of "Dataproc API CREATE request
\* failed. Status code:<code>" (GET on the status path): it holds the status
\* code and not the body text.
C4_PlainException ==
    \A i \in workers :
        (Done(i) /\ Answered(i) /\ replies[i][1].status_code # HTTP_OK) =>
            /\ IsErrorObject(response[i])
            /\ response[i].d["error"].s = S_Exception
            /\ response[i].d["message"].s =
                   S_Exception \o <<"(", "'">>
                   \o (IF calls[i][1].method = "POST" THEN S_createFailed ELSE S_getFailed)
                   \o IntToStr(replies[i][1].status_code) \o <<"'", ")">>
            /\ ~Contains(response[i].d["message"].s, replies[i][1].text)
\* a POST answered 500 ended in an Exception object
C4_Witness ==
    \E i \in workers :
        /\ Done(i)
        /\ Answered(i)
        /\ replies[i][1].status_code = 500
        /\ calls[i][1].method = "POST"
        /\ IsErrorObject(response[i])
        /\ response[i].d["error"].s = S_Exception

Abs(x) == IF x < 0 THEN -x ELSE x
\* n is the whole second nearest to a reading of t ticks, a reading halfway
\* between two seconds counting for the even one
Nearest(t, n) ==
    \/ 2 * Abs(t - n * TicksPerSecond) < TicksPerSecond
    \/ 2 * Abs(t - n * TicksPerSecond) = TicksPerSecond /\ n % 2 = 0
Seconds == 0..((ClockStart + MaxTicks) \div TicksPerSecond + 1)

\* C5: on the creation path main returns a string only when the POST was
\* answered HTTP 200, and the string is "aef-" followed by the whole second
\* of the clock reading of that call, the batchId of the POST's URL.
C5_BatchIdReturned ==
    \A i \in workers :
        (Done(i) /\ IsDict(request_json[i]) /\ ~Truthy(JobIdOf(i)) /\ IsStr(response[i])) =>
            /\ Len(calls[i]) = 1
            /\ calls[i][1].method = "POST"
            /\ Answered(i)
            /\ replies[i][1].status_code = HTTP_OK
            /\ curr_dt[i] \in ClockStart..clock
            /\ \E n \in Seconds :
                   /\ Nearest(curr_dt[i], n)
                   /\ response[i].s = S_aef \o IntToStr(n)
            /\ EndsWith(calls[i][1].url, <<"?", "b", "a", "t", "c", "h", "I", "d", "=">> \o response[i].s)
\* a creation read the clock in the second half of a second and returned the
\* id of the next second, the one its POST carried
C5_Witness ==
    \E i \in workers :
        /\ Done(i)
        /\ ~Truthy(JobIdOf(i))
        /\ Len(calls[i]) = 1
        /\ calls[i][1].method = "POST"
        /\ curr_dt[i] \div TicksPerSecond = ClockStart \div TicksPerSecond
        /\ IsStr(response[i])
        /\ response[i].s = S_aef \o IntToStr(ClockStart \div TicksPerSecond + 1)

C7_NoRetries ==
    \A i \in workers :
        /\ Len(calls[i]) <= 1
        /\ Len(reads[i]) <= 1
        /\ Len(replies[i]) <= Len(calls[i])
        /\ Len(reads[i]) = 1 =>
            /\ IsDict(request_json[i])
            /\ IsDict(Get(request_json[i], "workflow_properties"))
            /\ "jobs_definitions_bucket" \in DOMAIN Get(request_json[i], "workflow_properties").d
        /\ (Len(replies[i]) = 1 /\ (~Answered(i) \/ replies[i][1].status_code # HTTP_OK)) => Done(i)
\* an invocation that read its blob and whose one call was answered 500 ended
C7_Witness ==
    \E i \in workers :
        /\ Done(i)
        /\ Len(reads[i]) = 1
        /\ Len(calls[i]) = 1
        /\ Answered(i)
        /\ replies[i][1].status_code = 500

\* C9: a non-200 answer ends in an error object whose message contains the
\* answer's status code (404 for an HTTP 404).
C9_StatusCodeInMessage ==
    \A i \in workers :
        (Done(i) /\ Answered(i) /\ replies[i][1].status_code # HTTP_OK) =>
            /\ IsErrorObject(response[i])
            /\ Contains(response[i].d["message"].s, IntToStr(replies[i][1].status_code))
\* a GET answered 404 ended in an error object whose message contains 404
C9_Witness ==
    \E i \in workers :
        /\ Done(i)
        /\ Answered(i)
        /\ calls[i][1].method = "GET"
        /\ replies[i][1].status_code = 404
        /\ IsErrorObject(response[i])
        /\ Contains(response[i].d["message"].s, <<"4", "0", "4">>)

\* the invocation sent its POST
Posted(i) == Len(calls[i]) > 0 /\ calls[i][1].method = "POST"
\* the batchId value of the URL it posted to
PostedBatchId(i) ==
    LET url == calls[i][1].url
        head == Len(url) - Len(BatchId(Timestamp(curr_dt[i])))
    IN  SubSeq(url, head + 1, Len(url))
Called(i) == Len(calls[i]) > 0

\* C8 as stated: two creations whose clock readings fall in the same whole
\* second, at any sub-second offsets, post the same batch id.
C8_Original ==
    \A i, j \in workers :
        (Posted(i) /\ Posted(j)
            /\ curr_dt[i] \div TicksPerSecond = curr_dt[j] \div TicksPerSecond)
            => PostedBatchId(i) = PostedBatchId(j)
\* C8, amended: two creations post the same batch id exactly when their clock
\* readings have the same nearest whole second (a reading halfway between two
\* seconds counting for the even one).
C8_SameNearestSecond ==
    \A i, j \in workers :
        (Posted(i) /\ Posted(j)) =>
            (PostedBatchId(i) = PostedBatchId(j)
                <=> \E n \in Seconds : Nearest(curr_dt[i], n) /\ Nearest(curr_dt[j], n))
\* two invocations read the clock at different ticks and posted the same id
C8_Witness ==
    \E i, j \in workers :
        /\ i # j
        /\ Posted(i)
        /\ Posted(j)
        /\ curr_dt[i] # curr_dt[j]
        /\ PostedBatchId(i) = PostedBatchId(j)
        /\ StartsWith(PostedBatchId(i), S_aef)

====
